---- MODULE Spec2Model ----
(***************************************************************************)
(* The chat client of apps/web: the Home component (app/page.tsx) and the  *)
(* sendMessage helper (lib/api.ts).                                        *)
(*                                                                         *)
(* Text (the prompt, the response) is a sequence of characters, so that    *)
(* String.prototype.trim is computed and not assumed.  Error messages are  *)
(* strings.  The state is the four useState cells of Home, the last        *)
(* committed render (what the browser shows and what the handlers' closure *)
(* sees), and the calls to /api/chat that have not settled yet.            *)
(*                                                                         *)
(* The environment is the browser: the user types, clicks Send, presses    *)
(* Enter in the input; the network settles a pending call with some reply; *)
(* React commits a scheduled render.  A gesture on a disabled control      *)
(* dispatches no event (HTML: a disabled button is not activated, and a    *)
(* form whose default button is disabled is not implicitly submitted).     *)
(***************************************************************************)
EXTENDS Integers, Sequences, FiniteSets, TLC

VARIABLES
    prompt,      \* page.tsx:10  useState("")
    response,    \* page.tsx:11  useState("")
    isLoading,   \* page.tsx:12  useState(false)
    error,       \* page.tsx:13  useState("")
    view,        \* the last committed render of Home: the props of the DOM
    inflight,    \* the requests of the sendMessage calls not yet settled
    lastReply,   \* history: what the most recently settled call got
    prior,       \* history: response and error when the last call was issued
    lastEvent    \* history: the kind of the last step

vars == <<prompt, response, isLoading, error, view, inflight,
          lastReply, prior, lastEvent>>

-----------------------------------------------------------------------------
(* Bounds *)

\* longest text (prompt, response text) the model enumerates
MaxLen == 2

\* calls the network is asked to carry at once; the client itself never
\* comes near it, the cap only keeps a broken client finite
MaxInFlight == 2

-----------------------------------------------------------------------------
(* Text *)

Chars == {" ", "a"}

Whitespace == {" "}

Texts == UNION {[1..n -> Chars] : n \in 0..MaxLen}

\* JavaScript's undefined, where a text is expected (a reply without the
\* response field); it is no text: "undefined" is not a character
Undefined == <<"undefined">>

RECURSIVE trimStart(_)
trimStart(s) ==
    IF s # <<>> /\ Head(s) \in Whitespace THEN trimStart(Tail(s)) ELSE s

RECURSIVE trimEnd(_)
trimEnd(s) ==
    IF s # <<>> /\ s[Len(s)] \in Whitespace
    THEN trimEnd(SubSeq(s, 1, Len(s) - 1))
    ELSE s

trimNone(s) == s

\* String.prototype.trim
trim(s) == trimEnd(trimStart(s))

\* JavaScript truthiness of a string-or-undefined ({response && ...})
Truthy(v) == v # Undefined /\ Len(v) > 0

-----------------------------------------------------------------------------
(* lib/api.ts *)

OkStatuses == {200, 201}

ErrStatuses == {404, 500}

NoBody == [json |-> "none", response |-> Undefined]

\* what res.json() may find in a 2xx reply: an object with a response
\* text, an object without one, the JSON null, or text that is not JSON
Bodies ==
    {[json |-> "object", response |-> t] : t \in Texts \cup {Undefined}}
    \cup {[json |-> "null", response |-> Undefined],
          [json |-> "invalid", response |-> Undefined]}

\* how a fetch settles: a reply with a status, or a rejection
Replies ==
    {[kind |-> "http", status |-> s, body |-> b] : s \in OkStatuses, b \in Bodies}
    \cup {[kind |-> "http", status |-> s, body |-> NoBody] : s \in ErrStatuses}
    \cup {[kind |-> "rejected", status |-> 0, body |-> NoBody]}

NoReply == [kind |-> "none", status |-> 0, body |-> NoBody]

\* Response.ok
Ok(res) == res.kind = "http" /\ res.status >= 200 /\ res.status <= 299

RequestTrimmed(message) ==
    [method |-> "POST", path |-> "/api/chat", body |-> [message |-> trim(message)]]

\* the fetch sendMessage issues: POST ${API_URL}/api/chat, JSON.stringify({ message })
Request(message) ==
    [method |-> "POST", path |-> "/api/chat", body |-> [message |-> message]]

Thrown(msg) == [threw |-> TRUE, message |-> msg, value |-> Undefined]

Returned(v) == [threw |-> FALSE, message |-> "", value |-> v]

\* how the promise of sendMessage settles for a reply, as handleSubmit
\* sees it at `result.response`: the value read, or the Error caught
sendMessage(res) ==
    IF res.kind = "rejected" THEN Thrown("Failed to fetch")
    ELSE IF ~Ok(res) THEN Thrown("API error: " \o ToString(res.status))
    ELSE IF res.body.json = "invalid" THEN Thrown("Unexpected token")
    ELSE IF res.body.json = "null"
         THEN Thrown("Cannot read properties of null (reading 'response')")
    ELSE Returned(res.body.response)

-----------------------------------------------------------------------------
(* app/page.tsx *)

\* the state cells handleSubmit writes
State == [response |-> response, isLoading |-> isLoading, error |-> error]

\* Home(): the render of a state
Home(p, st) ==
    [prompt |-> p, response |-> st.response,
     isLoading |-> st.isLoading, error |-> st.error]

\* <Input disabled={isLoading} />
InputDisabled(v) == v.isLoading

ButtonDisabledBlankOnly(v) == trim(v.prompt) = <<>>

\* <Button type="submit" disabled={isLoading || !prompt.trim()} />
ButtonDisabled(v) == v.isLoading \/ trim(v.prompt) = <<>>

\* {error && <Card>...{error}</Card>}
ErrorShown(v) == v.error # ""

\* {response && <Card>...{response}</Card>}
ResponseShown(v) == Truthy(v.response)

BeginKeepResponse(st) == [st EXCEPT !.isLoading = TRUE, !.error = ""]

BeginKeepError(st) == [st EXCEPT !.isLoading = TRUE, !.response = <<>>]

BeginNoLoading(st) == [st EXCEPT !.error = "", !.response = <<>>]

\* handleSubmit before the await: setIsLoading(true); setError(""); setResponse("")
Begin(st) == [st EXCEPT !.isLoading = TRUE, !.error = "", !.response = <<>>]

SettleNoFinally(st, res) ==
    LET r == sendMessage(res) IN
    IF r.threw THEN [st EXCEPT !.error = r.message]
    ELSE [st EXCEPT !.response = r.value, !.isLoading = FALSE]

SettleTrimmed(st, res) ==
    LET r == sendMessage(res) IN
    IF r.threw THEN [st EXCEPT !.error = r.message, !.isLoading = FALSE]
    ELSE [st EXCEPT !.response = IF r.value = Undefined THEN Undefined ELSE trim(r.value),
                    !.isLoading = FALSE]

\* handleSubmit after the await: try { setResponse(result.response) }
\* catch { setError(err.message) } finally { setIsLoading(false) }.
\* Everything sendMessage throws is an Error (the TypeError of a rejected
\* fetch, the Error of line 17, the SyntaxError of res.json()), so the
\* "An error occurred" arm of line 27 is never taken.
Settle(st, res) ==
    LET r == sendMessage(res) IN
    IF r.threw THEN [st EXCEPT !.error = r.message, !.isLoading = FALSE]
    ELSE [st EXCEPT !.response = r.value, !.isLoading = FALSE]

\* the submit event reaches the form: handleSubmit runs with the prompt of
\* the render it closes over, up to its await.  The updates of a discrete
\* event are committed before the next event.
handleSubmit ==
    IF trim(view.prompt) = <<>>
    THEN UNCHANGED <<prompt, response, isLoading, error, view, inflight,
                     lastReply, prior>>
    ELSE LET st == Begin(State) IN
         /\ Len(inflight) < MaxInFlight
         /\ response' = st.response
         /\ isLoading' = st.isLoading
         /\ error' = st.error
         /\ inflight' = Append(inflight, Request(view.prompt))
         /\ view' = Home(prompt, st)
         /\ prior' = [response |-> response, error |-> error]
         /\ lastReply' = NoReply
         /\ UNCHANGED prompt

\* a gesture that dispatches no event
Ignored ==
    UNCHANGED <<prompt, response, isLoading, error, view, inflight,
                lastReply, prior>>

-----------------------------------------------------------------------------
(* Steps *)

Init ==
    /\ prompt = <<>>
    /\ response = <<>>
    /\ isLoading = FALSE
    /\ error = ""
    /\ view = Home(<<>>, [response |-> <<>>, isLoading |-> FALSE, error |-> ""])
    /\ inflight = <<>>
    /\ lastReply = NoReply
    /\ prior = [response |-> <<>>, error |-> ""]
    /\ lastEvent = [kind |-> "init", dispatched |-> FALSE]

\* the user edits the input: onChange={(e) => setPrompt(e.target.value)}
TypePrompt(p) ==
    /\ ~InputDisabled(view)
    /\ p # prompt
    /\ prompt' = p
    /\ view' = Home(p, State)
    /\ lastEvent' = [kind |-> "change", dispatched |-> TRUE]
    /\ UNCHANGED <<response, isLoading, error, inflight, lastReply, prior>>

\* the user clicks Send
ClickSend ==
    /\ lastEvent' = [kind |-> "click", dispatched |-> ~ButtonDisabled(view)]
    /\ IF ~ButtonDisabled(view) THEN handleSubmit ELSE Ignored

\* the user presses Enter in the input (implicit submission)
PressEnter ==
    /\ lastEvent' = [kind |-> "enter",
                     dispatched |-> ~InputDisabled(view) /\ ~ButtonDisabled(view)]
    /\ IF ~InputDisabled(view) /\ ~ButtonDisabled(view) THEN handleSubmit ELSE Ignored

\* a pending call settles with reply res and handleSubmit resumes; the
\* updates it makes are committed by a later render
Complete(i, res) ==
    /\ i \in 1..Len(inflight)
    /\ LET st == Settle(State, res) IN
       /\ response' = st.response
       /\ isLoading' = st.isLoading
       /\ error' = st.error
    /\ inflight' = SubSeq(inflight, 1, i - 1) \o SubSeq(inflight, i + 1, Len(inflight))
    /\ lastReply' = res
    /\ lastEvent' = [kind |-> "complete", dispatched |-> TRUE]
    /\ UNCHANGED <<prompt, view, prior>>

\* React commits the render scheduled by the updates made after the await
Render ==
    /\ view # Home(prompt, State)
    /\ view' = Home(prompt, State)
    /\ lastEvent' = [kind |-> "render", dispatched |-> TRUE]
    /\ UNCHANGED <<prompt, response, isLoading, error, inflight, lastReply, prior>>

Next ==
    \/ \E p \in Texts : TypePrompt(p)
    \/ ClickSend
    \/ PressEnter
    \/ \E i \in 1..MaxInFlight, res \in Replies : Complete(i, res)
    \/ Render

Spec == Init /\ [][Next]_vars

\* a scheduled render is committed
FairSpec == Spec /\ WF_vars(Render)

-----------------------------------------------------------------------------
(* Properties *)

\* a prompt that is empty or only whitespace, said without trim
IsBlank(s) == \A k \in 1..Len(s) : s[k] \in Whitespace

\* the step is a submit gesture of the user
SubmitGesture == lastEvent'.kind \in {"click", "enter"}

\* the render on screen is the render of the current state
Committed == view = Home(prompt, State)

\* the last settled call failed: rejected by the transport, answered with
\* a non-2xx status, or answered 2xx with a body that cannot be read
Failed == lastReply # NoReply /\ sendMessage(lastReply).threw

\* C1: at most one call to /api/chat is in flight in every reachable state,
\* whatever the user clicks or presses and however calls settle.
C1_AtMostOneInFlight == Len(inflight) <= 1

\* a submit gesture arrived while a call was in flight, and went nowhere
C1_Witness ==
    /\ lastEvent.kind \in {"click", "enter"}
    /\ ~lastEvent.dispatched
    /\ Len(inflight) = 1
    /\ isLoading

\* C2: a submit gesture on a blank prompt (empty or only whitespace) issues
\* no call and leaves isLoading, response and error as they were.
C2_BlankSubmitsNothing ==
    [][(SubmitGesture /\ IsBlank(prompt))
         => /\ inflight' = inflight
            /\ isLoading' = isLoading
            /\ response' = response
            /\ error' = error]_vars

\* the user submitted a prompt of whitespace only
C2_Witness ==
    /\ lastEvent.kind \in {"click", "enter"}
    /\ prompt # <<>>
    /\ IsBlank(prompt)

\* C3: a submission of a non-blank prompt issues exactly one POST to
\* /api/chat whose message is the prompt as typed, and no other step issues
\* a call: a call that settles, by success or by failure, is not repeated.
C3_OneCallPerSubmission ==
    [][/\ (SubmitGesture /\ lastEvent'.dispatched /\ ~IsBlank(prompt))
            => inflight' = Append(inflight,
                   [method |-> "POST", path |-> "/api/chat",
                    body |-> [message |-> prompt]])
       /\ ~(SubmitGesture /\ lastEvent'.dispatched)
            => Len(inflight') <= Len(inflight)
       /\ lastEvent'.kind = "complete"
            => /\ Len(inflight') = Len(inflight) - 1
               /\ \A k \in 1..Len(inflight') : \E j \in 1..Len(inflight) :
                      inflight'[k] = inflight[j]]_vars

\* a prompt with whitespace around it was submitted and went out as typed
C3_Witness ==
    /\ lastEvent.kind \in {"click", "enter"}
    /\ lastEvent.dispatched
    /\ Len(inflight) = 1
    /\ inflight[1].body.message = prompt
    /\ trim(prompt) # prompt

\* C4: while a call is in flight the Send button is disabled, and once a
\* call has settled, by success or by failure, the button gets enabled.
C4_DisabledWhileInFlight ==
    /\ [](inflight # <<>> => ButtonDisabled(view))
    /\ (lastEvent.kind = "complete") ~> (~ButtonDisabled(view))

\* the button is enabled again after a call that settled
C4_Witness ==
    /\ lastReply # NoReply
    /\ lastEvent.kind = "render"
    /\ ~ButtonDisabled(view)

\* C5: after a call settles, exactly one of the response panel and the
\* error panel is on display, for every reply.
C5_ExactlyOnePanel ==
    (lastReply # NoReply /\ Committed) => (ResponseShown(view) # ErrorShown(view))

\* C5, the half that holds: never both panels
C5_NeverBothPanels == ~(ResponseShown(view) /\ ErrorShown(view))

\* C6: after a non-2xx reply the error is not empty and no response is
\* held or displayed, also when the submission before it had succeeded.
C6_Non2xxShowsErrorOnly ==
    (lastReply.kind = "http" /\ ~Ok(lastReply))
        => /\ error # ""
           /\ response = <<>>
           /\ ~ResponseShown(view)
           /\ Committed => ErrorShown(view)

\* a non-2xx reply to a submission made with a response on display
C6_Witness ==
    /\ lastReply.kind = "http"
    /\ ~Ok(lastReply)
    /\ Truthy(prior.response)
    /\ Committed

\* C7: after a 2xx reply whose response field is a text T, the response is
\* T, character for character, and no error is held or displayed.
C7_ResponseVerbatim ==
    (Ok(lastReply) /\ lastReply.body.json = "object"
                   /\ lastReply.body.response # Undefined)
        => /\ response = lastReply.body.response
           /\ error = ""
           /\ ~ErrorShown(view)
           /\ Committed => /\ view.response = lastReply.body.response
                           /\ ResponseShown(view) = (lastReply.body.response # <<>>)

\* a text with whitespace around it is on display
C7_Witness ==
    /\ Ok(lastReply)
    /\ lastReply.body.json = "object"
    /\ lastReply.body.response # Undefined
    /\ trim(lastReply.body.response) # lastReply.body.response
    /\ Committed
    /\ ResponseShown(view)

\* C8: a call that failed leaves isLoading false, the Send button gets
\* enabled again, and a submission made then issues a new call.
C8_ReadyAfterFailure ==
    /\ [](Failed => ~isLoading)
    /\ (Failed /\ lastEvent.kind = "complete") ~> (Failed /\ ~ButtonDisabled(view))
    /\ [][(Failed /\ ~ButtonDisabled(view) /\ SubmitGesture /\ ~IsBlank(prompt))
             => /\ Len(inflight') = Len(inflight) + 1
                /\ isLoading']_vars

\* a call was issued after a call that failed
C8_Witness ==
    /\ prior.error # ""
    /\ Len(inflight) = 1
    /\ isLoading

\* C9: while the client is loading, response and error are empty and no
\* panel is on display.
C9_LoadingShowsNothing ==
    isLoading => /\ response = <<>>
                 /\ error = ""
                 /\ ~ResponseShown(view)
                 /\ ~ErrorShown(view)

\* loading, after a submission made with a response on display
C9_Witness == isLoading /\ Truthy(prior.response) /\ inflight # <<>>

\* C10: isLoading is true exactly when a call is in flight.
C10_LoadingIffInFlight == isLoading <=> (inflight # <<>>)

\* a call settled and isLoading went back to false
C10_Witness ==
    /\ lastEvent.kind = "complete"
    /\ ~isLoading
    /\ inflight = <<>>

====
